---------------------------- MODULE Spec2Model ----------------------------
(***************************************************************************)
(* The RON serializer of src/ser/mod.rs as a state machine.               *)
(*                                                                         *)
(* The state is one Serializer (output buffer, configuration, indent       *)
(* depth) together with the position of the value being visited: the       *)
(* stack of handlers that are waiting for a nested value and of containers *)
(* that are open.  Every method of the serde protocol is one action; the   *)
(* code that a handler runs after its nested value returns is run by the   *)
(* action that completes that value.  Text is a sequence of one-character  *)
(* strings.                                                                *)
(***************************************************************************)
EXTENDS Integers, Sequences, FiniteSets, TLC

VARIABLES
    pc,       \* "idle": no Serializer yet; "run": visiting; "done": returned
    entry,    \* the entry point of the current run
    config,   \* Serializer.pretty.0
    output,   \* Serializer.output
    indent,   \* Serializer.pretty.1.indent
    stack,    \* handlers waiting for a value and open containers, outermost first
    result,   \* what the entry point returned
    calls,    \* protocol calls made in this run
    nEnter,   \* history: start_indent executions in this run
    nClose,   \* history: end_indent executions in this run
    last,     \* history: the protocol call made by the latest step
    closed,   \* history: the container closed by the latest end call
    run,      \* 0: a single run; 1, 2: first run and its repetition
    trace,    \* history: the calls of the first run, in order
    first     \* history: entry, configuration and result of the first run

vars == <<pc, entry, config, output, indent, stack, result, calls,
          nEnter, nClose, last, closed, run, trace, first>>

-----------------------------------------------------------------------------
(* Bounds of the model *)

\* protocol calls per run
MaxCalls == 6
\* protocol calls per run when the run is repeated (SpecRuns)
MaxCallsRuns == 6
\* length of the strings given to serialize_str (SpecEscape)
MaxStrLen == 3

-----------------------------------------------------------------------------
(* Text *)

Quote == "\""
Apostrophe == "'"
Backslash == "\\"
LineFeed == "\n"
Space == " "
Tab == "\t"

IsPrefix(s, t) == Len(s) <= Len(t) /\ SubSeq(t, 1, Len(s)) = s

RECURSIVE Repeat(_, _)
Repeat(n, s) == IF n <= 0 THEN <<>> ELSE s \o Repeat(n - 1, s)

Digits == <<"0", "1", "2", "3", "4", "5", "6", "7", "8", "9">>

\* u64::to_string: decimal digits, most significant first
RECURSIVE u64_to_string(_)
u64_to_string(v) ==
    IF v < 10 THEN <<Digits[v + 1]>>
    ELSE u64_to_string(v \div 10) \o <<Digits[(v % 10) + 1]>>

\* i64::to_string
i64_to_string(v) == IF v < 0 THEN <<"-">> \o u64_to_string(0 - v) ELSE u64_to_string(v)

\* f64::to_string for a value given in quarters (v / 4): the shortest decimal
\* text, with no fraction when the value is whole
f64_to_string(v) ==
    LET m == IF v < 0 THEN 0 - v ELSE v
        frac == CASE m % 4 = 0 -> <<>>
                  [] m % 4 = 1 -> <<".", "2", "5">>
                  [] m % 4 = 2 -> <<".", "5">>
                  [] OTHER     -> <<".", "7", "5">>
    IN (IF v < 0 THEN <<"-">> ELSE <<>>) \o u64_to_string(m \div 4) \o frac

-----------------------------------------------------------------------------
(* PrettyConfig *)

\* impl Default for PrettyConfig (not windows)
PrettyConfig_default ==
    [new_line |-> <<LineFeed>>,
     indentor |-> <<Space, Space, Space, Space>>,
     separate_tuple_members |-> FALSE,
     struct_names |-> TRUE,
     add_space |-> TRUE]

\* PrettyConfig::basic leaving add_space as the default has it
PrettyConfig_basic_spaced(struct_names) ==
    [PrettyConfig_default EXCEPT
        !.new_line = <<>>,
        !.indentor = <<>>,
        !.separate_tuple_members = FALSE,
        !.struct_names = struct_names]

PrettyConfig_basic(struct_names) ==
    [PrettyConfig_default EXCEPT
        !.new_line = <<>>,
        !.indentor = <<>>,
        !.separate_tuple_members = FALSE,
        !.struct_names = struct_names,
        !.add_space = FALSE]

\* the configurations a caller passes to to_string_pretty
\* the flags take every value; the two strings are both empty (as in basic) or both
\* not (as in default)
Configs ==
    {[new_line |-> w.new_line,
      indentor |-> w.indentor,
      separate_tuple_members |-> b[1],
      struct_names |-> b[2],
      add_space |-> b[3]] :
        w \in {PrettyConfig_basic(FALSE), PrettyConfig_default},
        b \in BOOLEAN \X BOOLEAN \X BOOLEAN}

Presets == {PrettyConfig_basic(FALSE), PrettyConfig_basic(TRUE), PrettyConfig_default}


-----------------------------------------------------------------------------
(* Serializer: the private helpers.  An engine value e carries the buffer  *)
(* and the depth together with the two history counters.                   *)

Me == [output |-> output, indent |-> indent, enter |-> nEnter, close |-> nClose]

Write(e, text) == [e EXCEPT !.output = @ \o text]

separate_tuple_members == config.separate_tuple_members

struct_names == config.struct_names

new_line == config.new_line

space == IF config.add_space THEN <<Space>> ELSE <<>>

start_indent(e) ==
    [e EXCEPT !.indent = @ + 1,
              !.output = @ \o config.new_line,
              !.enter = @ + 1]

Serializer_indent(e) == Write(e, Repeat(e.indent, config.indentor))

\* pretty.indent is a usize; the decrement is written here over the integers, and
\* a depth below zero marks a decrement that ran at zero
\* end_indent writing the indentation of the block's lines, before the decrement
end_indent_stale(e) ==
    [e EXCEPT !.indent = @ - 1,
              !.output = @ \o Repeat(e.indent, config.indentor),
              !.close = @ + 1]

end_indent(e) ==
    [e EXCEPT !.indent = @ - 1,
              !.output = @ \o Repeat(e.indent - 1, config.indentor),
              !.close = @ + 1]

\* the loop of SerializeTuple::end running once too often (0..=len)
RECURSIVE pop_inclusive(_, _)
pop_inclusive(s, len) ==
    IF s = <<>> THEN s
    ELSE IF len = 0 THEN SubSeq(s, 1, Len(s) - 1)
    ELSE pop_inclusive(SubSeq(s, 1, Len(s) - 1), len - 1)

\* String::pop, len times: removes the last character while there is one
RECURSIVE pop(_, _)
pop(s, len) ==
    IF len = 0 \/ s = <<>> THEN s ELSE pop(SubSeq(s, 1, Len(s) - 1), len - 1)

-----------------------------------------------------------------------------
(* The position of the visit *)

Pending == {"root", "some", "newtype_struct", "newtype_variant", "seq_element",
            "tuple_element", "map_key", "map_value", "struct_field"}

Wrappers == {"some", "newtype_struct", "newtype_variant"}

TupleKinds == {"tuple", "tuple_struct", "tuple_variant"}

StructKinds == {"struct", "struct_variant"}

Containers == {"seq", "map"} \cup TupleKinds \cup StructKinds

\* a handler waiting for its nested value (a: the buffer length when the value starts)
\* or an open container (wait: a map whose key has no value yet; elems: where each
\* element's text began (a), ended (b), and where its call returned (c))
Frame(kind, from, a) ==
    [kind |-> kind, from |-> from, a |-> a, depth |-> indent, wait |-> FALSE,
     keys |-> <<>>, elems |-> <<>>]

Top == stack[Len(stack)]

Front(st) == SubSeq(st, 1, Len(st) - 1)

ExpectValue == pc = "run" /\ stack # <<>> /\ Top.kind \in Pending

InContainer(kinds) == pc = "run" /\ stack # <<>> /\ Top.kind \in kinds

\* the protocol calls still owed before the visit can end: the end call of every
\* open container, the value a waiting handler is waiting for, and for a map whose
\* key is being or has been serialized the value call and its value
RECURSIVE Owed(_)
Owed(st) ==
    IF st = <<>> THEN 0
    ELSE LET f == st[Len(st)]
         IN Owed(Front(st))
            + (IF f.kind \in Containers THEN 1 ELSE 0)
            + (IF (f.kind \in Containers /\ f.wait) \/ f.kind = "map_key" THEN 2 ELSE 0)

Due(st) ==
    Owed(st) + (IF st # <<>> /\ st[Len(st)].kind \in Pending THEN 1 ELSE 0)

Limit == IF run = 0 THEN MaxCalls ELSE MaxCallsRuns

Call(op, arg) == [op |-> op, arg |-> arg]

\* the second run is driven by the same value: it makes the calls of the first
Driven(call) ==
    run = 2 =>
        /\ calls < Len(trace)
        /\ trace[calls + 1].op = call.op
        /\ trace[calls + 1].arg = call.arg


-----------------------------------------------------------------------------
(* What each handler does once its nested value has returned Ok *)

serialize_some_rest(e) == Write(e, <<")">>)

serialize_newtype_struct_rest(e) == Write(e, <<")">>)

serialize_newtype_variant_rest(e) == Write(e, <<")">>)

SerializeSeq_serialize_element_rest(e) == Write(Write(e, <<",">>), new_line)

\* the tail of SerializeTuple::serialize_element writing the space string whatever
\* separate_tuple_members says
SerializeTuple_serialize_element_rest_spaced(e) == Write(Write(e, <<",">>), space)

SerializeTuple_serialize_element_rest(e) ==
    IF separate_tuple_members
    THEN Write(Write(e, <<",">>), new_line)
    ELSE Write(Write(e, <<",">>), space)

SerializeMap_serialize_key_rest(e) == e

\* a map value followed by a comma and a space
SerializeMap_serialize_value_rest_spaced(e) ==
    Write(Write(Write(e, <<",">>), space), new_line)

SerializeMap_serialize_value_rest(e) == Write(Write(e, <<",">>), new_line)

SerializeStruct_serialize_field_rest(e) == Write(Write(e, <<",">>), new_line)

After(e, f) ==
    CASE f.kind = "some" -> serialize_some_rest(e)
      [] f.kind = "newtype_struct" -> serialize_newtype_struct_rest(e)
      [] f.kind = "newtype_variant" -> serialize_newtype_variant_rest(e)
      [] f.kind = "seq_element" -> SerializeSeq_serialize_element_rest(e)
      [] f.kind = "tuple_element" -> SerializeTuple_serialize_element_rest(e)
      [] f.kind = "map_key" -> SerializeMap_serialize_key_rest(e)
      [] f.kind = "map_value" -> SerializeMap_serialize_value_rest(e)
      [] f.kind = "struct_field" -> SerializeStruct_serialize_field_rest(e)
      [] OTHER -> e

\* the container on top of st, with the element that just returned noted
Noted(st, f, b, c) ==
    [st EXCEPT ![Len(st)] =
        [@ EXCEPT !.elems = IF f.kind = "map_key" THEN @
                            ELSE Append(@, [a |-> f.a, b |-> b, c |-> c]),
                  !.keys = IF f.kind = "map_key"
                           THEN Append(@, [a |-> f.a, b |-> b, c |-> c])
                           ELSE @,
                  !.wait = (f.kind = "map_key")]]

\* A value has been serialized with engine e, under the handlers of st.  Wrappers
\* finish and return in turn; an element call returns to the container's visitor;
\* the entry point returns the buffer.
RECURSIVE Return(_, _)
Return(e, st) ==
    LET f == st[Len(st)]
    IN IF f.kind = "root" THEN [e |-> e, stack |-> <<>>, done |-> TRUE]
       ELSE IF f.kind \in Wrappers THEN Return(After(e, f), Front(st))
       ELSE [e |-> After(e, f),
             stack |-> Noted(Front(st), f, Len(e.output), Len(After(e, f).output)),
             done |-> FALSE]

\* an element call that does its punctuation before it returns the error
Question_late(r, f) ==
    IF f.kind = "seq_element" THEN [r EXCEPT !.e = Write(@, <<",">>)] ELSE r

\* value.serialize(..)? in a handler (or in the entry point) whose nested value
\* returned Err: the handler returns that error and runs nothing more
Question(r, f) == r

RECURSIVE Raise(_, _)
Raise(r, st) ==
    IF st = <<>> THEN r ELSE Raise(Question(r, st[Len(st)]), Front(st))

\* impl ser::Error for Error: custom
Error_custom(msg) == [tag |-> "Err", msg |-> msg]

NoResult == [tag |-> "None"]

Ok(text) == [tag |-> "Ok", text |-> text]

NoCall == [op |-> "none", arg |-> 0, at |-> 0, depth |-> 0]

NoClosed ==
    [kind |-> "none", from |-> 0, a |-> 0, to |-> 0, before |-> 0, depth |-> 0,
     keys |-> <<>>, elems |-> <<>>]

\* the state after a protocol call that left engine e, stack st
Commit(call, e, st, done, cl) ==
    /\ pc = "run"
    /\ Driven(call)
    /\ calls + 1 + Due(st) <= Limit
    /\ output' = e.output
    /\ indent' = e.indent
    /\ nEnter' = e.enter
    /\ nClose' = e.close
    /\ stack' = st
    /\ pc' = IF done THEN "done" ELSE "run"
    /\ result' = IF done THEN Ok(e.output) ELSE result
    /\ calls' = calls + 1
    /\ last' = [op |-> call.op, arg |-> call.arg, at |-> Len(output), depth |-> indent]
    /\ closed' = cl
    /\ trace' = IF run = 1 THEN Append(trace, call) ELSE trace
    /\ UNCHANGED <<entry, config, run, first>>

\* a handler that serializes a whole value by itself
Value(call, e) ==
    LET r == Return(e, stack) IN Commit(call, r.e, r.stack, r.done, closed)

\* a handler that writes its opening text and then waits: for a nested value
\* (a wrapper) or for the element calls (a container)
Open(call, e, kind) ==
    Commit(call, e, Append(stack, Frame(kind, Len(output), Len(e.output))), FALSE, closed)

\* an element, key, value or field call of an open container
Element(call, e, kind) ==
    /\ Top.wait = (kind = "map_value")
    /\ Commit(call, e,
              Append([stack EXCEPT ![Len(stack)].wait = FALSE],
                     Frame(kind, Len(output), Len(e.output))),
              FALSE, closed)

\* the end call of an open container: the container is a value that is now complete
End(call, e) ==
    /\ ~Top.wait
    /\ LET r == Return(e, Front(stack))
       IN Commit(call, r.e, r.stack, r.done,
                 [kind |-> Top.kind, from |-> Top.from, a |-> Top.a, to |-> Len(e.output),
                  before |-> Top.depth, depth |-> e.indent,
                  keys |-> Top.keys, elems |-> Top.elems])


-----------------------------------------------------------------------------
(* The inputs of the visits *)

Signed == {-12}
Unsigned == {250}
\* floating-point values, in quarters
Floats == {14}
Chars == {Apostrophe}
Strs == {<<Space, Quote>>}
ByteStrings == {<<>>, <<1, 20>>}
TypeNames == {<<"S">>}
VariantNames == {<<"V">>}
Keys == {<<"x">>}
Messages == {<<"m">>}

\* the characters of the strings and chars of SpecEscape
Alphabet == {"a", Backslash, Quote, Apostrophe, LineFeed, Tab}

RECURSIVE StringsUpTo(_)
StringsUpTo(n) ==
    IF n = 0 THEN {<<>>}
    ELSE LET S == StringsUpTo(n - 1)
         IN S \cup {Append(v, c) : v \in {w \in S : Len(w) = n - 1}, c \in Alphabet}

-----------------------------------------------------------------------------
(* Entry points *)

\* a Serializer that is kept from one run to the next
NewSerializer_reused(cfg) == [config |-> cfg, output |-> output, indent |-> indent]

\* Serializer { output: String::new(), pretty: (config, Pretty { indent: 0 }) }
NewSerializer(cfg) == [config |-> cfg, output |-> <<>>, indent |-> 0]

\* An entry point builds its Serializer and starts the visit of the value.  When a
\* run is repeated, the first run's Serializer has been dropped and its outcome is
\* kept for comparison.
Start(how, cfg) ==
    /\ LET s == NewSerializer(cfg)
       IN /\ config' = s.config
          /\ output' = s.output
          /\ indent' = s.indent
    /\ entry' = how
    /\ stack' = <<Frame("root", 0, 0)>>
    /\ pc' = "run"
    /\ result' = NoResult
    /\ calls' = 0
    /\ nEnter' = 0
    /\ nClose' = 0
    /\ last' = NoCall
    /\ closed' = NoClosed
    /\ run' = IF run = 1 /\ pc = "done" THEN 2 ELSE run
    /\ first' = IF run = 1 /\ pc = "done"
                THEN [entry |-> entry, config |-> config, result |-> result]
                ELSE first
    /\ UNCHANGED trace

\* to_string with the type names switched on
to_string_config_names == PrettyConfig_basic(TRUE)

\* the configuration to_string builds
to_string_config == PrettyConfig_basic(FALSE)

to_string ==
    /\ pc = "idle" \/ (pc = "done" /\ run = 1)
    /\ Start("to_string", to_string_config)

to_string_pretty(cfg) ==
    /\ pc = "idle" \/ (pc = "done" /\ run = 1)
    /\ Start("to_string_pretty", cfg)

\* The Serialize implementation of a value that is about to be serialized gives up
\* with Error::custom(msg): every handler on the way out returns the error, and so
\* does the entry point.
Serialize_fail(msg) ==
    /\ ExpectValue
    /\ Driven(Call("fail", msg))
    /\ LET r == Raise([e |-> Me, err |-> Error_custom(msg)], stack)
       IN /\ output' = r.e.output
          /\ indent' = r.e.indent
          /\ nEnter' = r.e.enter
          /\ nClose' = r.e.close
          /\ result' = r.err
    /\ stack' = <<>>
    /\ pc' = "done"
    /\ calls' = calls + 1
    /\ last' = [op |-> "fail", arg |-> msg, at |-> Len(output), depth |-> indent]
    /\ trace' = IF run = 1 THEN Append(trace, Call("fail", msg)) ELSE trace
    /\ UNCHANGED <<entry, config, closed, run, first>>

-----------------------------------------------------------------------------
(* impl ser::Serializer: scalars *)

serialize_bool_do(e, v) ==
    Write(e, IF v THEN <<"t", "r", "u", "e">> ELSE <<"f", "a", "l", "s", "e">>)

serialize_bool(v) ==
    /\ ExpectValue
    /\ Value(Call("serialize_bool", v), serialize_bool_do(Me, v))

serialize_i64_do(e, v) == Write(e, i64_to_string(v))

serialize_i8(v) ==
    /\ ExpectValue
    /\ Value(Call("serialize_i8", v), serialize_i64_do(Me, v))

serialize_i16(v) ==
    /\ ExpectValue
    /\ Value(Call("serialize_i16", v), serialize_i64_do(Me, v))

serialize_i32(v) ==
    /\ ExpectValue
    /\ Value(Call("serialize_i32", v), serialize_i64_do(Me, v))

serialize_i64(v) ==
    /\ ExpectValue
    /\ Value(Call("serialize_i64", v), serialize_i64_do(Me, v))

serialize_u64_do(e, v) == Write(e, u64_to_string(v))

serialize_u8(v) ==
    /\ ExpectValue
    /\ Value(Call("serialize_u8", v), serialize_u64_do(Me, v))

serialize_u16(v) ==
    /\ ExpectValue
    /\ Value(Call("serialize_u16", v), serialize_u64_do(Me, v))

serialize_u32(v) ==
    /\ ExpectValue
    /\ Value(Call("serialize_u32", v), serialize_u64_do(Me, v))

serialize_u64(v) ==
    /\ ExpectValue
    /\ Value(Call("serialize_u64", v), serialize_u64_do(Me, v))

serialize_f64_do(e, v) == Write(e, f64_to_string(v))

serialize_f32(v) ==
    /\ ExpectValue
    /\ Value(Call("serialize_f32", v), serialize_f64_do(Me, v))

serialize_f64(v) ==
    /\ ExpectValue
    /\ Value(Call("serialize_f64", v), serialize_f64_do(Me, v))

serialize_char_do(e, v) ==
    LET e1 == Write(e, <<Apostrophe>>)
        e2 == IF v = Backslash \/ v = Apostrophe THEN Write(e1, <<Backslash>>) ELSE e1
    IN Write(Write(e2, <<v>>), <<Apostrophe>>)

serialize_char(v) ==
    /\ ExpectValue
    /\ Value(Call("serialize_char", v), serialize_char_do(Me, v))

\* serialize_str escaping the apostrophe too, as serialize_char does
RECURSIVE push_escaped_both_quotes(_, _)
push_escaped_both_quotes(out, v) ==
    IF v = <<>> THEN out
    ELSE LET char == Head(v)
             out1 == IF char = Backslash \/ char = Quote \/ char = Apostrophe
                     THEN Append(out, Backslash) ELSE out
         IN push_escaped_both_quotes(Append(out1, char), Tail(v))

\* the loop of serialize_str over v.chars()
RECURSIVE push_escaped(_, _)
push_escaped(out, v) ==
    IF v = <<>> THEN out
    ELSE LET char == Head(v)
             out1 == IF char = Backslash \/ char = Quote
                     THEN Append(out, Backslash) ELSE out
         IN push_escaped(Append(out1, char), Tail(v))

serialize_str_do(e, v) ==
    LET e1 == Write(e, <<Quote>>)
        e2 == [e1 EXCEPT !.output = push_escaped(@, v)]
    IN Write(e2, <<Quote>>)

serialize_str(v) ==
    /\ ExpectValue
    /\ Value(Call("serialize_str", v), serialize_str_do(Me, v))

serialize_none_do(e) == Write(e, <<"N", "o", "n", "e">>)

serialize_none ==
    /\ ExpectValue
    /\ Value(Call("serialize_none", 0), serialize_none_do(Me))

serialize_some_do(e) == Write(e, <<"S", "o", "m", "e", "(">>)

serialize_some ==
    /\ ExpectValue
    /\ Open(Call("serialize_some", 0), serialize_some_do(Me), "some")

serialize_unit_do(e) == Write(e, <<"(", ")">>)

serialize_unit ==
    /\ ExpectValue
    /\ Value(Call("serialize_unit", 0), serialize_unit_do(Me))

serialize_unit_struct_do(e, name) ==
    IF struct_names THEN Write(e, name) ELSE serialize_unit_do(e)

serialize_unit_struct(name) ==
    /\ ExpectValue
    /\ Value(Call("serialize_unit_struct", name), serialize_unit_struct_do(Me, name))

serialize_unit_variant_do(e, variant) == Write(e, variant)

serialize_unit_variant(variant) ==
    /\ ExpectValue
    /\ Value(Call("serialize_unit_variant", variant),
             serialize_unit_variant_do(Me, variant))

serialize_newtype_struct_do(e, name) ==
    LET e1 == IF struct_names THEN Write(e, name) ELSE e
    IN Write(e1, <<"(">>)

serialize_newtype_struct(name) ==
    /\ ExpectValue
    /\ Open(Call("serialize_newtype_struct", name),
            serialize_newtype_struct_do(Me, name), "newtype_struct")

\* serialize_newtype_variant entering a block, as serialize_struct_variant does
serialize_newtype_variant_do_block(e, variant) ==
    start_indent(Write(Write(e, variant), <<"(">>))

serialize_newtype_variant_do(e, variant) == Write(Write(e, variant), <<"(">>)

serialize_newtype_variant(variant) ==
    /\ ExpectValue
    /\ Open(Call("serialize_newtype_variant", variant),
            serialize_newtype_variant_do(Me, variant), "newtype_variant")


-----------------------------------------------------------------------------
(* impl ser::Serializer: containers *)

serialize_seq_do(e) == start_indent(Write(e, <<"[">>))

serialize_seq ==
    /\ ExpectValue
    /\ Open(Call("serialize_seq", 0), serialize_seq_do(Me), "seq")

\* serialize_tuple entering a block whatever separate_tuple_members says
serialize_tuple_do_block(e) == start_indent(Write(e, <<"(">>))

serialize_tuple_do(e) ==
    LET e1 == Write(e, <<"(">>)
    IN IF separate_tuple_members THEN start_indent(e1) ELSE e1

serialize_tuple ==
    /\ ExpectValue
    /\ Open(Call("serialize_tuple", 0), serialize_tuple_do(Me), "tuple")

serialize_tuple_struct_do(e, name) ==
    serialize_tuple_do(IF struct_names THEN Write(e, name) ELSE e)

serialize_tuple_struct(name) ==
    /\ ExpectValue
    /\ Open(Call("serialize_tuple_struct", name),
            serialize_tuple_struct_do(Me, name), "tuple_struct")

\* serialize_tuple_variant entering a block whatever separate_tuple_members says
serialize_tuple_variant_do_block(e, variant) ==
    start_indent(Write(Write(e, variant), <<"(">>))

\* serialize_tuple_variant writing the variant only when struct_names is set
serialize_tuple_variant_do_gated(e, variant) ==
    LET e1 == Write(IF struct_names THEN Write(e, variant) ELSE e, <<"(">>)
    IN IF separate_tuple_members THEN start_indent(e1) ELSE e1

serialize_tuple_variant_do(e, variant) ==
    LET e1 == Write(Write(e, variant), <<"(">>)
    IN IF separate_tuple_members THEN start_indent(e1) ELSE e1

serialize_tuple_variant(variant) ==
    /\ ExpectValue
    /\ Open(Call("serialize_tuple_variant", variant),
            serialize_tuple_variant_do(Me, variant), "tuple_variant")

serialize_map_do(e) == start_indent(Write(e, <<"{">>))

serialize_map ==
    /\ ExpectValue
    /\ Open(Call("serialize_map", 0), serialize_map_do(Me), "map")

\* serialize_struct writing the name whatever struct_names says
serialize_struct_do_named(e, name) == start_indent(Write(Write(e, name), <<"(">>))

serialize_struct_do(e, name) ==
    LET e1 == IF struct_names THEN Write(e, name) ELSE e
    IN start_indent(Write(e1, <<"(">>))

serialize_struct(name) ==
    /\ ExpectValue
    /\ Open(Call("serialize_struct", name), serialize_struct_do(Me, name), "struct")

serialize_struct_variant_do(e, variant) ==
    start_indent(Write(Write(e, variant), <<"(">>))

serialize_struct_variant(variant) ==
    /\ ExpectValue
    /\ Open(Call("serialize_struct_variant", variant),
            serialize_struct_variant_do(Me, variant), "struct_variant")

-----------------------------------------------------------------------------
(* impl ser::SerializeSeq *)

\* SerializeSeq::serialize_element writing no indentation
SerializeSeq_serialize_element_do_flat(e) == e

SerializeSeq_serialize_element_do(e) == Serializer_indent(e)

SerializeSeq_serialize_element ==
    /\ InContainer({"seq"})
    /\ Element(Call("SerializeSeq::serialize_element", 0),
               SerializeSeq_serialize_element_do(Me), "seq_element")

SerializeSeq_end_do(e) == Write(end_indent(e), <<"]">>)

SerializeSeq_end ==
    /\ InContainer({"seq"})
    /\ End(Call("SerializeSeq::end", 0), SerializeSeq_end_do(Me))

\* serialize_bytes: the sequence protocol, driven over v with serialize_u8
RECURSIVE serialize_bytes_loop(_, _)
serialize_bytes_loop(e, v) ==
    IF v = <<>> THEN e
    ELSE serialize_bytes_loop(
            SerializeSeq_serialize_element_rest(
                serialize_u64_do(SerializeSeq_serialize_element_do(e), Head(v))),
            Tail(v))

\* serialize_bytes writing the bytes between brackets on one line
RECURSIVE serialize_bytes_inline(_, _)
serialize_bytes_inline(e, v) ==
    IF v = <<>> THEN e
    ELSE serialize_bytes_inline(Write(serialize_u64_do(e, Head(v)), <<",">>), Tail(v))

serialize_bytes_do_inline(e, v) ==
    Write(serialize_bytes_inline(Write(e, <<"[">>), v), <<"]">>)

serialize_bytes_do(e, v) ==
    SerializeSeq_end_do(serialize_bytes_loop(serialize_seq_do(e), v))

serialize_bytes(v) ==
    /\ ExpectValue
    /\ Value(Call("serialize_bytes", v), serialize_bytes_do(Me, v))

-----------------------------------------------------------------------------
(* impl ser::SerializeTuple, SerializeTupleStruct, SerializeTupleVariant *)

SerializeTuple_serialize_element_do(e) ==
    IF separate_tuple_members THEN Serializer_indent(e) ELSE e

SerializeTuple_serialize_element ==
    /\ InContainer({"tuple"})
    /\ Element(Call("SerializeTuple::serialize_element", 0),
               SerializeTuple_serialize_element_do(Me), "tuple_element")

\* SerializeTuple::end trimming the last element's comma as well
SerializeTuple_end_do_trim_comma(e) ==
    LET e1 == IF separate_tuple_members
              THEN end_indent(e)
              ELSE [e EXCEPT !.output = pop(@, Len(space) + 1)]
    IN Write(e1, <<")">>)

\* SerializeTuple::end never closing the block
SerializeTuple_end_do_no_close(e) ==
    Write([e EXCEPT !.output = pop(@, Len(space))], <<")">>)

SerializeTuple_end_do(e) ==
    LET e1 == IF separate_tuple_members
              THEN end_indent(e)
              ELSE [e EXCEPT !.output = pop(@, Len(space))]
    IN Write(e1, <<")">>)

SerializeTuple_end ==
    /\ InContainer({"tuple"})
    /\ End(Call("SerializeTuple::end", 0), SerializeTuple_end_do(Me))

SerializeTupleStruct_serialize_field ==
    /\ InContainer({"tuple_struct"})
    /\ Element(Call("SerializeTupleStruct::serialize_field", 0),
               SerializeTuple_serialize_element_do(Me), "tuple_element")

SerializeTupleStruct_end ==
    /\ InContainer({"tuple_struct"})
    /\ End(Call("SerializeTupleStruct::end", 0), SerializeTuple_end_do(Me))

SerializeTupleVariant_serialize_field ==
    /\ InContainer({"tuple_variant"})
    /\ Element(Call("SerializeTupleVariant::serialize_field", 0),
               SerializeTuple_serialize_element_do(Me), "tuple_element")

SerializeTupleVariant_end ==
    /\ InContainer({"tuple_variant"})
    /\ End(Call("SerializeTupleVariant::end", 0), SerializeTuple_end_do(Me))

-----------------------------------------------------------------------------
(* impl ser::SerializeMap *)

SerializeMap_serialize_key_do(e) == Serializer_indent(e)

SerializeMap_serialize_key ==
    /\ InContainer({"map"})
    /\ Element(Call("SerializeMap::serialize_key", 0),
               SerializeMap_serialize_key_do(Me), "map_key")

\* SerializeMap::serialize_value beginning with the indentation, as a key does
SerializeMap_serialize_value_do_indented(e) ==
    Write(Write(Serializer_indent(e), <<":">>), space)

SerializeMap_serialize_value_do(e) == Write(Write(e, <<":">>), space)

SerializeMap_serialize_value ==
    /\ InContainer({"map"})
    /\ Element(Call("SerializeMap::serialize_value", 0),
               SerializeMap_serialize_value_do(Me), "map_value")

SerializeMap_end_do(e) == Write(end_indent(e), <<"}">>)

SerializeMap_end ==
    /\ InContainer({"map"})
    /\ End(Call("SerializeMap::end", 0), SerializeMap_end_do(Me))

-----------------------------------------------------------------------------
(* impl ser::SerializeStruct, SerializeStructVariant *)

SerializeStruct_serialize_field_do(e, key) ==
    Write(Write(Write(Serializer_indent(e), key), <<":">>), space)

SerializeStruct_serialize_field(key) ==
    /\ InContainer({"struct"})
    /\ Element(Call("SerializeStruct::serialize_field", key),
               SerializeStruct_serialize_field_do(Me, key), "struct_field")

SerializeStruct_end_do(e) == Write(end_indent(e), <<")">>)

SerializeStruct_end ==
    /\ InContainer({"struct"})
    /\ End(Call("SerializeStruct::end", 0), SerializeStruct_end_do(Me))

SerializeStructVariant_serialize_field(key) ==
    /\ InContainer({"struct_variant"})
    /\ Element(Call("SerializeStructVariant::serialize_field", key),
               SerializeStruct_serialize_field_do(Me, key), "struct_field")

SerializeStructVariant_end ==
    /\ InContainer({"struct_variant"})
    /\ End(Call("SerializeStructVariant::end", 0), SerializeStruct_end_do(Me))

-----------------------------------------------------------------------------
(* The single run: every configuration, every visit of at most MaxCalls calls *)

Init ==
    /\ pc = "idle"
    /\ entry = "none"
    /\ config = PrettyConfig_default
    /\ output = <<>>
    /\ indent = 0
    /\ stack = <<>>
    /\ result = NoResult
    /\ calls = 0
    /\ nEnter = 0
    /\ nClose = 0
    /\ last = NoCall
    /\ closed = NoClosed
    /\ run = 0
    /\ trace = <<>>
    /\ first = [entry |-> "none", config |-> PrettyConfig_default, result |-> NoResult]

Scalar ==
    \/ \E v \in BOOLEAN : serialize_bool(v)
    \/ \E v \in Signed : serialize_i8(v)
    \/ \E v \in Signed : serialize_i16(v)
    \/ \E v \in Signed : serialize_i32(v)
    \/ \E v \in Signed : serialize_i64(v)
    \/ \E v \in Unsigned : serialize_u8(v)
    \/ \E v \in Unsigned : serialize_u16(v)
    \/ \E v \in Unsigned : serialize_u32(v)
    \/ \E v \in Unsigned : serialize_u64(v)
    \/ \E v \in Floats : serialize_f32(v)
    \/ \E v \in Floats : serialize_f64(v)
    \/ \E v \in Chars : serialize_char(v)
    \/ \E v \in Strs : serialize_str(v)
    \/ \E v \in ByteStrings : serialize_bytes(v)
    \/ serialize_none
    \/ serialize_unit
    \/ \E name \in TypeNames : serialize_unit_struct(name)
    \/ \E variant \in VariantNames : serialize_unit_variant(variant)

Compound ==
    \/ serialize_some
    \/ \E name \in TypeNames : serialize_newtype_struct(name)
    \/ \E variant \in VariantNames : serialize_newtype_variant(variant)
    \/ serialize_seq
    \/ serialize_tuple
    \/ \E name \in TypeNames : serialize_tuple_struct(name)
    \/ \E variant \in VariantNames : serialize_tuple_variant(variant)
    \/ serialize_map
    \/ \E name \in TypeNames : serialize_struct(name)
    \/ \E variant \in VariantNames : serialize_struct_variant(variant)

Members ==
    \/ SerializeSeq_serialize_element
    \/ SerializeSeq_end
    \/ SerializeTuple_serialize_element
    \/ SerializeTuple_end
    \/ SerializeTupleStruct_serialize_field
    \/ SerializeTupleStruct_end
    \/ SerializeTupleVariant_serialize_field
    \/ SerializeTupleVariant_end
    \/ SerializeMap_serialize_key
    \/ SerializeMap_serialize_value
    \/ SerializeMap_end
    \/ \E key \in Keys : SerializeStruct_serialize_field(key)
    \/ SerializeStruct_end
    \/ \E key \in Keys : SerializeStructVariant_serialize_field(key)
    \/ SerializeStructVariant_end

Visit ==
    \/ Scalar
    \/ Compound
    \/ Members
    \/ \E msg \in Messages : Serialize_fail(msg)

Next ==
    \/ to_string
    \/ \E cfg \in Configs : to_string_pretty(cfg)
    \/ Visit

Spec == Init /\ [][Next]_vars


-----------------------------------------------------------------------------
(* The repeated run: a value is serialized, and then serialized again by a   *)
(* second call of an entry point, which visits it the same way               *)

InitRuns ==
    /\ pc = "idle"
    /\ entry = "none"
    /\ config = PrettyConfig_default
    /\ output = <<>>
    /\ indent = 0
    /\ stack = <<>>
    /\ result = NoResult
    /\ calls = 0
    /\ nEnter = 0
    /\ nClose = 0
    /\ last = NoCall
    /\ closed = NoClosed
    /\ run = 1
    /\ trace = <<>>
    /\ first = [entry |-> "none", config |-> PrettyConfig_default, result |-> NoResult]

\* one scalar of each kind of text: a number, a quoted text, a type name and a
\* variant name
ScalarRuns ==
    \/ \E v \in Signed : serialize_i32(v)
    \/ \E v \in Strs : serialize_str(v)
    \/ \E name \in TypeNames : serialize_unit_struct(name)
    \/ \E variant \in VariantNames : serialize_unit_variant(variant)

NextRuns ==
    \/ to_string
    \/ \E cfg \in Presets : to_string_pretty(cfg)
    \/ ScalarRuns
    \/ Compound
    \/ Members
    \/ \E msg \in Messages : Serialize_fail(msg)

SpecRuns == InitRuns /\ [][NextRuns]_vars

-----------------------------------------------------------------------------
(* Strings and characters: every string of at most MaxStrLen characters of  *)
(* Alphabet, and every character of it, serialized as the whole value       *)

NextEscape ==
    \/ to_string
    \/ \E cfg \in Configs : to_string_pretty(cfg)
    \/ \E v \in StringsUpTo(MaxStrLen) : serialize_str(v)
    \/ \E v \in Alphabet : serialize_char(v)

SpecEscape == Init /\ [][NextEscape]_vars


-----------------------------------------------------------------------------
(* Properties *)

Done == pc = "done"

Both == run = 2 /\ pc = "done"

Compact(cfg) ==
    /\ cfg.new_line = <<>>
    /\ cfg.indentor = <<>>
    /\ ~cfg.add_space
    /\ ~cfg.separate_tuple_members

NamedTypeOps == {"serialize_unit_struct", "serialize_newtype_struct",
                 "serialize_tuple_struct", "serialize_struct"}

VisitsNamedType == \E i \in 1..Len(trace) : trace[i].op \in NamedTypeOps

\* one run by to_string and one by to_string_pretty with configuration cfg
Paired(cfg) ==
    /\ Both
    /\ \/ first.entry = "to_string" /\ entry = "to_string_pretty" /\ config = cfg
       \/ first.entry = "to_string_pretty" /\ first.config = cfg /\ entry = "to_string"

\* C1: to_string(value) and to_string_pretty(value, PrettyConfig::basic(false)) make
\* the same calls and return the same text (or the same error), whatever the value.
C1_CompactIsPrettyBasic ==
    Paired(PrettyConfig_basic(FALSE)) =>
        /\ calls = Len(trace)
        /\ result = first.result

C1_Witness ==
    /\ Paired(PrettyConfig_basic(FALSE))
    /\ result.tag = "Ok"
    /\ trace[1].op = "serialize_struct"
    /\ Len(trace) = 6

\* C2 as stated: to_string(value) equals to_string_pretty(value, basic(true)).
C2_Original ==
    Paired(PrettyConfig_basic(TRUE)) => result = first.result

\* C2, amended: to_string encodes with the basic preset with name emission off, so
\* its text has no type names: it equals the text of basic(true) exactly for the
\* values that hold no unit struct, newtype struct, tuple struct or struct.
C2_CompactOmitsTypeNames ==
    /\ (entry = "to_string" /\ pc # "idle") => config = PrettyConfig_basic(FALSE)
    /\ (Paired(PrettyConfig_basic(TRUE)) /\ result.tag = "Ok") =>
            ((result = first.result) <=> ~VisitsNamedType)

C2_Witness ==
    /\ Paired(PrettyConfig_basic(TRUE))
    /\ first.entry = "to_string"
    /\ result.tag = "Ok"
    /\ trace[1].op = "serialize_newtype_struct"
    /\ result # first.result

\* C3: when a run returns Ok, start_indent and end_indent have run equally often
\* and the indent depth is zero again.
C3_Balanced ==
    (Done /\ result.tag = "Ok") => (nEnter = nClose /\ indent = 0)

C3_Witness ==
    /\ Done
    /\ result.tag = "Ok"
    /\ nEnter >= 2
    /\ config.separate_tuple_members
    /\ closed.kind \in TupleKinds

\* C10: a second run of the same entry point with an equal configuration over the
\* same value starts from an empty buffer at depth zero and returns what the first
\* run returned.
C10_Deterministic ==
    /\ (run = 2 /\ pc = "run" /\ calls = 0) => (output = <<>> /\ indent = 0)
    /\ (Both /\ entry = first.entry /\ config = first.config) => result = first.result

C10_Witness ==
    /\ Both
    /\ entry = first.entry
    /\ config = first.config
    /\ config.struct_names
    /\ result.tag = "Ok"
    /\ Len(result.text) >= 4
    /\ Len(trace) = 6


TupleEndOps == {"SerializeTuple::end", "SerializeTupleStruct::end",
                "SerializeTupleVariant::end"}

\* C4 as stated: every step leaves the old buffer as a prefix of the new one.
C4_Original == [][IsPrefix(output, output')]_vars

\* C4, amended: every call other than the end call of a tuple, tuple struct or
\* tuple variant only appends; that end call, when separate_tuple_members is false,
\* first removes as many trailing characters as the space string is long (one with
\* add_space, none without) and then appends; nothing else is removed or rewritten.
C4_AppendOnlyButTupleEnd ==
    [][IF last'.op \in TupleEndOps /\ ~config.separate_tuple_members
       THEN /\ Len(output) >= Len(space)
            /\ IsPrefix(SubSeq(output, 1, Len(output) - Len(space)), output')
            /\ Len(output') > Len(output) - Len(space)
       ELSE IsPrefix(output, output')]_vars

C4_Witness ==
    /\ last.op = "SerializeTuple::end"
    /\ ~config.separate_tuple_members
    /\ config.add_space
    /\ Len(closed.elems) = 2

\* the text of output from position from + 1 to position to
Text(from, to) == SubSeq(output, from + 1, to)

TextAt(at, t) == Len(output) >= at + Len(t) /\ Text(at, at + Len(t)) = t

\* the texts of the elements of a closed container, each followed by a comma
RECURSIVE Joined(_)
Joined(elems) ==
    IF elems = <<>> THEN <<>>
    ELSE Text(Head(elems).a, Head(elems).b) \o <<",">> \o Joined(Tail(elems))

\* C5: in compact mode a sequence is `[`, each element followed by `,`, and `]`; a
\* tuple is `(`, each element followed by `,`, and `)`; with no elements they are
\* `[]` and `()`; the bytes 1, 20 as the whole value give `[1,20,]`.
C5_CompactSeqAndTuple ==
    /\ (Compact(config) /\ closed.kind = "seq") =>
            /\ Text(closed.from, closed.to) = <<"[">> \o Joined(closed.elems) \o <<"]">>
            /\ closed.elems = <<>> => Text(closed.from, closed.to) = <<"[", "]">>
    /\ (Compact(config) /\ closed.kind = "tuple") =>
            /\ Text(closed.from, closed.to) = <<"(">> \o Joined(closed.elems) \o <<")">>
            /\ closed.elems = <<>> => Text(closed.from, closed.to) = <<"(", ")">>
    /\ (Compact(config) /\ Done /\ calls = 1 /\ last.op = "serialize_bytes") =>
            result.text = IF last.arg = <<>> THEN <<"[", "]">>
                          ELSE <<"[", "1", ",", "2", "0", ",", "]">>

C5_Witness ==
    /\ entry = "to_string"
    /\ Done
    /\ closed.kind = "tuple"
    /\ Len(closed.elems) = 2
    /\ result.text = <<"(", "-", "1", "2", ",", "2", "5", "0", ",", ")">>

\* v with a backslash before each of its characters that is in special
RECURSIVE Escaped(_, _)
Escaped(v, special) ==
    IF v = <<>> THEN <<>>
    ELSE (IF Head(v) \in special THEN <<Backslash, Head(v)>> ELSE <<Head(v)>>)
         \o Escaped(Tail(v), special)

\* t read back: a backslash is dropped and the character after it is kept
RECURSIVE Unescaped(_)
Unescaped(t) ==
    IF t = <<>> THEN <<>>
    ELSE IF Head(t) = Backslash /\ Len(t) >= 2
    THEN <<t[2]>> \o Unescaped(SubSeq(t, 3, Len(t)))
    ELSE <<Head(t)>> \o Unescaped(Tail(t))

HowMany(v, special) == Cardinality({i \in 1..Len(v) : v[i] \in special})

Inner(t) == SubSeq(t, 2, Len(t) - 1)

\* C6: a string is written between double quotes with a backslash before each
\* backslash and each double quote, a character between apostrophes with a backslash
\* before it when it is a backslash or an apostrophe; nothing else is changed, the
\* text is 2 + length + escapes long, and dropping the backslashes gives the input.
C6_Escaping ==
    /\ (Done /\ last.op = "serialize_str") =>
        LET v == last.arg
            t == result.text
        IN /\ Len(t) = 2 + Len(v) + HowMany(v, {Backslash, Quote})
           /\ t[1] = Quote /\ t[Len(t)] = Quote
           /\ Inner(t) = Escaped(v, {Backslash, Quote})
           /\ Unescaped(Inner(t)) = v
    /\ (Done /\ last.op = "serialize_char") =>
        LET v == <<last.arg>>
            t == result.text
        IN /\ Len(t) = 2 + Len(v) + HowMany(v, {Backslash, Apostrophe})
           /\ t[1] = Apostrophe /\ t[Len(t)] = Apostrophe
           /\ Inner(t) = Escaped(v, {Backslash, Apostrophe})
           /\ Unescaped(Inner(t)) = v

C6_Witness ==
    /\ Done
    /\ last.op = "serialize_str"
    /\ last.arg = <<Apostrophe, Quote, LineFeed>>
    /\ result.text = <<Quote, Apostrophe, Backslash, Quote, LineFeed, Quote>>

VariantOps == {"serialize_unit_variant", "serialize_newtype_variant",
               "serialize_tuple_variant", "serialize_struct_variant"}

\* C7: a variant call writes the variant name in every configuration; a unit struct,
\* newtype struct, tuple struct or struct call writes the type name exactly when
\* struct_names is true; a unit struct without struct_names is `()`.
C7_NameEmission ==
    /\ last.op \in VariantOps => TextAt(last.at, last.arg)
    /\ last.op \in NamedTypeOps => (config.struct_names <=> TextAt(last.at, last.arg))
    /\ (last.op \in NamedTypeOps /\ ~config.struct_names) => TextAt(last.at, <<"(">>)
    /\ (last.op = "serialize_unit_struct" /\ ~config.struct_names) =>
            TextAt(last.at, <<"(", ")">>)
    /\ (last.op = "serialize_unit_struct" /\ Done /\ calls = 1) =>
            result.text = IF config.struct_names THEN last.arg ELSE <<"(", ")">>

C7_Witness ==
    /\ last.op = "serialize_struct_variant"
    /\ ~config.struct_names
    /\ TextAt(last.at, <<"V", "(">>)


IsBlock(kind) ==
    kind \in {"seq", "map"} \cup StructKinds
        \/ (kind \in TupleKinds /\ config.separate_tuple_members)

Closer(kind) == CASE kind = "seq" -> "]" [] kind = "map" -> "}" [] OTHER -> ")"

EachHasComma(elems) ==
    \A i \in 1..Len(elems) :
        Len(output) > elems[i].b /\ output[elems[i].b + 1] = ","

\* between the last element and the closing delimiter: the comma, and for a block
\* the line terminator and the indentation of the closing line
ClosingLayout(c) ==
    c.elems # <<>> =>
        Text(c.elems[Len(c.elems)].b, c.to) =
            <<",">>
            \o (IF IsBlock(c.kind)
                THEN config.new_line \o Repeat(c.depth, config.indentor)
                ELSE <<>>)
            \o <<Closer(c.kind)>>

\* a step keeps the buffer, but for a last character that is no comma and no closing
\* delimiter, and never makes it shorter
KeepsPunctuation ==
    \/ IsPrefix(output, output')
    \/ /\ output # <<>>
       /\ IsPrefix(SubSeq(output, 1, Len(output) - 1), output')
       /\ Len(output') >= Len(output)
       /\ output[Len(output)] \notin {",", "]", "}", ")"}

\* C8: in every configuration each element, entry and field of a container, the last
\* one too, is followed by a comma; between that last comma and the closing delimiter
\* there is only the line terminator and the indentation (nothing for a tuple that is
\* not split), and no later call removes or moves a comma or a closing delimiter.
C8_TrailingComma ==
    /\ [](/\ \A k \in 1..Len(stack) : EachHasComma(stack[k].elems)
          /\ closed.kind # "none" => (EachHasComma(closed.elems) /\ ClosingLayout(closed)))
    /\ [][KeepsPunctuation]_vars

C8_Witness ==
    /\ Done
    /\ closed.kind = "tuple_struct"
    /\ config.add_space
    /\ ~config.separate_tuple_members
    /\ Len(closed.elems) = 2
    /\ output[Len(output) - 1] = ","

\* C9: when the value gives up with Error::custom(m), nothing more is appended, the
\* depth is left as it is, the run ends at once with Err(Message(m)) and no text, and
\* no call follows; a run in which no value gives up ends with Ok and the buffer.
C9_ErrorPropagation ==
    /\ [](Done =>
            /\ result.tag \in {"Ok", "Err"}
            /\ result.tag = "Err" <=> last.op = "fail"
            /\ result.tag = "Err" => result = [tag |-> "Err", msg |-> last.arg]
            /\ result.tag = "Ok" => result = [tag |-> "Ok", text |-> output])
    /\ [][(pc = "run" /\ last'.op = "fail") =>
            /\ output' = output
            /\ indent' = indent
            /\ stack' = <<>>
            /\ pc' = "done"]_vars
    /\ [][pc # "done"]_vars

C9_Witness ==
    /\ Done
    /\ result = [tag |-> "Err", msg |-> <<"m">>]
    /\ calls >= 4
    /\ indent >= 1
    /\ output # <<>>

EndOps ==
    {"SerializeSeq::end", "SerializeMap::end", "SerializeStruct::end",
     "SerializeStructVariant::end"} \cup TupleEndOps

\* the buffer position at which line i of a container begins: a key's for a map, an
\* element's or a field's otherwise
LineStart(c, i) == IF i = 1 THEN c.a ELSE c.elems[i - 1].c

NumLines(c) == IF c.kind = "map" THEN Len(c.keys) ELSE Len(c.elems)

\* the lines of a block opened at depth d begin with the indentor, d + 1 times
LinesIndented(c, d) ==
    \A i \in 1..NumLines(c) :
        /\ TextAt(LineStart(c, i), Repeat(d + 1, config.indentor))
        /\ LET line == IF c.kind = "map" THEN c.keys[i] ELSE c.elems[i]
           IN  line.a >= LineStart(c, i) + (d + 1) * Len(config.indentor)

\* the closing delimiter of a block follows the indentor, repeated as on the line of
\* its opening delimiter
CloserAligned(c) ==
    /\ c.depth = c.before
    /\ c.to >= c.a + c.depth * Len(config.indentor) + 1
    /\ Text(c.to - 1 - c.depth * Len(config.indentor), c.to) =
           Repeat(c.before, config.indentor) \o <<Closer(c.kind)>>

\* closing a block takes one from the depth, then writes the indentation at the new
\* depth, then the delimiter
ClosesBlock ==
    (pc = "run" /\ pc' # "idle" /\ last'.op \in EndOps /\ IsBlock(Top.kind)) =>
        /\ indent' = indent - 1
        /\ IsPrefix(output \o Repeat(indent - 1, config.indentor)
                        \o <<Closer(Top.kind)>>, output')

\* C11: the closing delimiter of every block (sequence, map, struct, struct variant,
\* tuple split over lines) is written right after the indentor repeated as many times
\* as the depth after the decrement, which is the depth at which the block was
\* opened; every element, field and key line of the block begins with the indentor
\* repeated once more.
C11_ClosingAlignment ==
    /\ [](/\ \A k \in 1..Len(stack) :
                 IsBlock(stack[k].kind) => LinesIndented(stack[k], stack[k].depth)
          /\ (closed.kind # "none" /\ IsBlock(closed.kind)) =>
                 (CloserAligned(closed) /\ LinesIndented(closed, closed.before)))
    /\ [][ClosesBlock]_vars

C11_Witness ==
    /\ config.indentor # <<>>
    /\ IsBlock(closed.kind)
    /\ closed.before = 1
    /\ \E k \in 1..Len(stack) : IsBlock(stack[k].kind) /\ stack[k].elems # <<>>

\* the blocks among the containers that are open
OpenBlocks(st) == Cardinality({k \in 1..Len(st) : IsBlock(st[k].kind)})

\* a step that runs end_indent runs it at a depth above zero: the depth before the
\* step, and one more when the step has entered a block itself (serialize_bytes)
ClosesAboveZero ==
    (pc = "run" /\ pc' # "idle" /\ nClose' # nClose) =>
        indent + (nEnter' - nEnter) >= 1

\* C12: the depth is never negative and is the number of open blocks (sequences,
\* maps, structs, struct variants, and tuples of the three kinds when
\* separate_tuple_members is set); end_indent never decrements a depth of zero; the
\* end of a container leaves the depth that held before its start.
C12_DepthCountsOpenBlocks ==
    /\ [](/\ indent >= 0
          /\ pc = "run" => indent = OpenBlocks(stack)
          /\ (pc = "done" /\ result.tag = "Ok") => indent = 0
          /\ closed.kind # "none" => closed.depth = closed.before)
    /\ [][ClosesAboveZero]_vars

C12_Witness ==
    /\ pc = "run"
    /\ indent = 1
    /\ OpenBlocks(stack) = 1
    /\ closed.kind \in TupleKinds
    /\ IsBlock(closed.kind)
    /\ closed.before = 1

\* the text of a closed tuple that is not split: the opening delimiter, the elements
\* each with its comma, the closing delimiter
TupleTextKept(c) ==
    LET n == Len(c.elems)
        elements == IF n = 0 THEN c.a ELSE c.elems[n].b + 1
    IN  /\ c.a >= 1
        /\ TextAt(c.a - 1, <<"(">>)
        /\ c.to = elements + 1
        /\ TextAt(elements, <<")">>)

\* C13: with separate_tuple_members unset, the end of a tuple, tuple struct or tuple
\* variant of any arity, zero too, with add_space set or not, removes only the space
\* after its last element: the opening delimiter and the text before it stay, and the
\* tuple reads opening delimiter, elements, closing delimiter.
C13_TupleTrim ==
    (closed.kind \in TupleKinds /\ ~config.separate_tuple_members) =>
        TupleTextKept(closed)

\* the same for the tuples that have an element
TupleTrimNonEmpty ==
    (closed.kind \in TupleKinds /\ ~config.separate_tuple_members
        /\ closed.elems # <<>>) => TupleTextKept(closed)

TupleStartOps == {"serialize_tuple", "serialize_tuple_struct", "serialize_tuple_variant"}

TupleElementOps ==
    {"SerializeTuple::serialize_element", "SerializeTupleStruct::serialize_field",
     "SerializeTupleVariant::serialize_field"}

Split == IF config.separate_tuple_members THEN 1 ELSE 0

\* element i of a tuple as it is written: on a line of its own, indented, when the
\* tuple is split, and right after what precedes it, followed by the space string,
\* when it is not
TupleElementLayout(c, d, i) ==
    LET el == c.elems[i]
    IN  IF config.separate_tuple_members
        THEN /\ Text(LineStart(c, i), el.a) = Repeat(d + 1, config.indentor)
             /\ Text(el.b, el.c) = <<",">> \o config.new_line
        ELSE /\ el.a = LineStart(c, i)
             /\ Text(el.b, el.c) = <<",">> \o space

\* the end of a tuple: the closing line of a block, nothing trimmed, when the tuple is
\* split; the delimiter in place of the last space when it is not
TupleEndLayout(c) ==
    LET n == Len(c.elems)
        written == IF n = 0 THEN c.a ELSE c.elems[n].c
    IN  /\ c.depth = c.before
        /\ IF config.separate_tuple_members
           THEN Text(written, c.to) = Repeat(c.before, config.indentor) \o <<")">>
           ELSE n > 0 => (c.to = written - Len(space) + 1 /\ TextAt(c.to - 1, <<")">>))

\* the three calls of a tuple enter a block, write indentation and leave a block
\* when separate_tuple_members is set, and only then
TupleBranch ==
    (pc = "run" /\ pc' # "idle") =>
        /\ last'.op \in TupleStartOps =>
               (nEnter' = nEnter + Split /\ indent' = indent + Split /\ nClose' = nClose)
        /\ last'.op \in TupleElementOps =>
               /\ output' = output \o Repeat(indent * Split, config.indentor)
               /\ indent' = indent /\ nEnter' = nEnter /\ nClose' = nClose
        /\ last'.op \in TupleEndOps =>
               /\ nClose' = nClose + Split /\ indent' = indent - Split /\ nEnter' = nEnter
               /\ config.separate_tuple_members => IsPrefix(output, output')

\* C14: the start, the element calls and the end of a tuple, tuple struct or tuple
\* variant follow separate_tuple_members alike.  Set: the start enters a block, an
\* element is indentation, element, comma, line terminator, the end closes the block
\* and trims nothing.  Unset: no block is entered, an element is element, comma, space
\* string, the depth is the same over the whole tuple and end_indent is not called.
C14_TupleModeConsistency ==
    /\ [](/\ \A k \in 1..Len(stack) :
                 stack[k].kind \in TupleKinds =>
                     /\ indent >= stack[k].depth + Split
                     /\ \A i \in 1..Len(stack[k].elems) :
                            TupleElementLayout(stack[k], stack[k].depth, i)
          /\ closed.kind \in TupleKinds =>
                 /\ TupleEndLayout(closed)
                 /\ \A i \in 1..(Len(closed.elems) - 1 + Split) :
                        TupleElementLayout(closed, closed.before, i))
    /\ [][TupleBranch]_vars

C14_Witness ==
    /\ closed.kind \in TupleKinds
    /\ Len(closed.elems) = 2
    /\ config.indentor # <<>>
    /\ config.add_space

\* the lines of a sequence at depth d whose elements have the encodings texts
RECURSIVE SeqLines(_, _)
SeqLines(d, texts) ==
    IF texts = <<>> THEN <<>>
    ELSE Repeat(d + 1, config.indentor) \o Head(texts) \o <<",">> \o config.new_line
             \o SeqLines(d, Tail(texts))

\* the text of a sequence opened at depth d
SeqLayout(d, texts) ==
    <<"[">> \o config.new_line \o SeqLines(d, texts)
        \o Repeat(d, config.indentor) \o <<"]">>

\* the encodings in the buffer of the elements noted in elems
ElementTexts(elems) == [i \in 1..Len(elems) |-> Text(elems[i].a, elems[i].b)]

SeqCalls ==
    (pc = "run" /\ pc' # "idle") =>
        /\ last'.op = "serialize_seq" =>
               (output' = output \o <<"[">> \o config.new_line /\ indent' = indent + 1)
        /\ last'.op = "SerializeSeq::serialize_element" =>
               (output' = output \o Repeat(indent, config.indentor) /\ indent' = indent)
        /\ last'.op = "SerializeSeq::end" =>
               /\ indent' = indent - 1
               /\ IsPrefix(output \o Repeat(indent - 1, config.indentor) \o <<"]">>,
                           output')

\* C15: serialize_seq appends `[`, adds one to the depth and appends the line
\* terminator; an element call appends the indentor, depth times, then the element,
\* a comma and the line terminator; the end takes one from the depth, appends the
\* indentor, new depth times, and `]`; the text of a sequence is these pieces and
\* nothing else.
C15_SequenceProtocol ==
    /\ [](/\ closed.kind = "seq" =>
                 Text(closed.from, closed.to) =
                     SeqLayout(closed.before, ElementTexts(closed.elems))
          /\ \A k \in 1..Len(stack) :
                 stack[k].kind = "seq" =>
                     LET s == stack[k]
                         n == Len(s.elems)
                     IN  Text(s.from, IF n = 0 THEN s.a ELSE s.elems[n].c) =
                             <<"[">> \o config.new_line
                                 \o SeqLines(s.depth, ElementTexts(s.elems)))
    /\ [][SeqCalls]_vars

C15_Witness ==
    /\ closed.kind = "seq"
    /\ Len(closed.elems) = 2
    /\ config.indentor # <<>>
    /\ config.new_line # <<>>

\* the lines of a map at depth d: the encodings of the keys and of the values
RECURSIVE MapLines(_, _, _)
MapLines(d, ks, vs) ==
    IF ks = <<>> THEN <<>>
    ELSE Repeat(d + 1, config.indentor) \o Head(ks) \o <<":">> \o space
             \o Head(vs) \o <<",">> \o config.new_line
             \o MapLines(d, Tail(ks), Tail(vs))

MapLayout(d, ks, vs) ==
    <<"{">> \o config.new_line \o MapLines(d, ks, vs)
        \o Repeat(d, config.indentor) \o <<"}">>

MapCalls ==
    (pc = "run" /\ pc' # "idle") =>
        /\ last'.op = "serialize_map" =>
               (output' = output \o <<"{">> \o config.new_line /\ indent' = indent + 1)
        /\ last'.op = "SerializeMap::serialize_key" =>
               (output' = output \o Repeat(indent, config.indentor) /\ indent' = indent)
        /\ last'.op = "SerializeMap::serialize_value" =>
               (output' = output \o <<":">> \o space /\ indent' = indent)

Depths(e) == [indent |-> e.indent, enter |-> e.enter, close |-> e.close]

\* from the engine of this state, a variant's start is the variant name followed by
\* the start of a tuple, or of a struct that writes no name
VariantStartsAlike ==
    \A variant \in VariantNames :
        /\ serialize_tuple_variant_do(Me, variant) = serialize_tuple_do(Write(Me, variant))
        /\ \A name \in TypeNames :
               LET sv == serialize_struct_variant_do(Me, variant)
                   s == serialize_struct_do(Write(Me, variant), name)
               IN  /\ Depths(sv) = Depths(s)
                   /\ sv.output =
                          IF config.struct_names
                          THEN SubSeq(s.output, 1, Len(output) + Len(variant))
                                   \o SubSeq(s.output,
                                             Len(output) + Len(variant) + Len(name) + 1,
                                             Len(s.output))
                          ELSE s.output

\* an element and the end of a tuple variant do what those of a tuple do, a field and
\* the end of a struct variant what those of a struct do
VariantCallsAlike ==
    (pc = "run" /\ pc' # "idle") =>
        /\ last'.op = "SerializeTupleVariant::serialize_field" =>
               /\ output' = SerializeTuple_serialize_element_do(Me).output
               /\ indent' = SerializeTuple_serialize_element_do(Me).indent
        /\ last'.op = "SerializeTupleVariant::end" =>
               /\ IsPrefix(SerializeTuple_end_do(Me).output, output')
               /\ indent' = SerializeTuple_end_do(Me).indent
        /\ last'.op = "SerializeStructVariant::serialize_field" =>
               /\ output' = SerializeStruct_serialize_field_do(Me, last'.arg).output
               /\ indent' = SerializeStruct_serialize_field_do(Me, last'.arg).indent
        /\ last'.op = "SerializeStructVariant::end" =>
               /\ IsPrefix(SerializeStruct_end_do(Me).output, output')
               /\ indent' = SerializeStruct_end_do(Me).indent

\* the opening text of a container c, after a name of names when named is set
OpensWith(c, named, names, rest) ==
    \E n \in names :
        Text(c.from, c.a) = (IF named THEN n ELSE <<>>) \o <<"(">> \o rest

\* C17: in every configuration a tuple variant V writes V and then what a tuple of
\* the same fields writes, with the same changes of depth; a struct variant V writes
\* V and then what a struct that writes no name writes, with the same changes of
\* depth.
C17_VariantEquivalence ==
    /\ [](/\ VariantStartsAlike
          /\ \A c \in {stack[k] : k \in 1..Len(stack)} :
                 LET block == IF config.separate_tuple_members
                              THEN config.new_line ELSE <<>>
                 IN  /\ c.kind = "tuple" => OpensWith(c, FALSE, VariantNames, block)
                     /\ c.kind = "tuple_variant" =>
                            OpensWith(c, TRUE, VariantNames, block)
                     /\ c.kind = "struct" =>
                            OpensWith(c, config.struct_names, TypeNames, config.new_line)
                     /\ c.kind = "struct_variant" =>
                            OpensWith(c, TRUE, VariantNames, config.new_line))
    /\ [][VariantCallsAlike]_vars

C17_Witness ==
    /\ closed.kind = "tuple_variant"
    /\ Len(closed.elems) = 2
    /\ config.separate_tuple_members
    /\ config.struct_names
    /\ last.op = "SerializeTupleVariant::end"
    /\ TextAt(closed.from, <<"V", "(">> \o config.new_line)

\* the encodings of the bytes of v as unsigned integers
ByteTexts(v) == [i \in 1..Len(v) |-> u64_to_string(v[i])]

\* serialize_bytes enters one block and leaves it, as a sequence does
BytesDepth ==
    (pc = "run" /\ pc' # "idle" /\ last'.op = "serialize_bytes") =>
        (nEnter' = nEnter + 1 /\ nClose' = nClose + 1 /\ indent' = indent)

\* C18: in every configuration serialize_bytes writes the text of a sequence whose
\* elements are the bytes, each as an unsigned integer, in order, and changes the
\* depth as that sequence does; for no bytes it writes the text of a sequence without
\* elements.
C18_BytesAsSequence ==
    /\ [](/\ last.op = "serialize_bytes" =>
                 /\ TextAt(last.at, SeqLayout(last.depth, ByteTexts(last.arg)))
                 /\ indent = last.depth
                 /\ last.arg = <<>> => TextAt(last.at, SeqLayout(last.depth, <<>>))
          /\ closed.kind = "seq" =>
                 Text(closed.from, closed.to) =
                     SeqLayout(closed.before, ElementTexts(closed.elems)))
    /\ [][BytesDepth]_vars

C18_Witness ==
    /\ last.op = "serialize_bytes"
    /\ last.arg = <<1, 20>>
    /\ last.depth >= 1
    /\ config.indentor # <<>>
    /\ config.new_line # <<>>

ScalarOps ==
    {"serialize_bool", "serialize_i8", "serialize_i16", "serialize_i32", "serialize_i64",
     "serialize_u8", "serialize_u16", "serialize_u32", "serialize_u64", "serialize_f32",
     "serialize_f64", "serialize_char", "serialize_str", "serialize_none",
     "serialize_unit", "serialize_unit_struct", "serialize_unit_variant"}

WrapperOps == {"serialize_some", "serialize_newtype_struct", "serialize_newtype_variant"}

\* no call of a run changes the configuration
ConfigKept == pc = "run" => config' = config

\* a call that opens no container leaves the depth as it is
DepthKept ==
    (pc = "run" /\ pc' # "idle" /\ last'.op \in ScalarOps \cup WrapperOps) =>
        indent' = indent

\* a step that lets Some, a newtype struct or a newtype variant return, its value
\* being visited, leaves the depth at which it was called
WrapperReturns ==
    (pc = "run" /\ pc' # "idle" /\ last'.op # "fail") =>
        \A k \in 1..Len(stack) :
            (stack[k].kind \in Wrappers /\ Len(stack') < k) =>
                indent' = stack[k].depth

\* C19: no call changes the configuration of the engine during a run, and a call
\* that opens no container (a scalar, None, Some, unit, unit struct, unit variant,
\* newtype struct, newtype variant) leaves the depth, once the value under it has
\* been visited, as it was before the call.
C19_FrameConditions ==
    /\ [](\A k \in 1..Len(stack) :
              stack[k].kind \in Wrappers =>
                  indent = stack[k].depth + OpenBlocks(SubSeq(stack, k, Len(stack))))
    /\ [][ConfigKept /\ DepthKept /\ WrapperReturns]_vars

C19_Witness ==
    /\ pc = "run"
    /\ indent = 1
    /\ closed.kind = "seq"
    /\ closed.before = 1
    /\ last.op = "SerializeSeq::end"
    /\ TextAt(closed.to, <<")">>)

Whitespace == {Space, Tab, LineFeed}

\* how many characters of t are white space
Blanks(t) == Cardinality({i \in 1..Len(t) : t[i] \in Whitespace})

Basic(cfg) == cfg \in {PrettyConfig_basic(TRUE), PrettyConfig_basic(FALSE)}

\* the white space in what the caller hands to a call: a string, a character, a type
\* name, a variant name or a field name
Given(call) ==
    IF call.op = "serialize_char" THEN Blanks(<<call.arg>>)
    ELSE IF call.op \in {"serialize_str", "SerializeStruct::serialize_field",
                         "SerializeStructVariant::serialize_field"}
                            \cup NamedTypeOps \cup VariantOps
    THEN Blanks(call.arg)
    ELSE 0

\* with the basic preset a call adds the white space it was given and no other, and
\* takes nothing from the buffer
NoBlanksAdded ==
    (pc = "run" /\ pc' # "idle" /\ Basic(config)) =>
        /\ Blanks(output') = Blanks(output) + Given(last')
        /\ IsPrefix(output, output')
        /\ last'.op \in TupleEndOps => Len(pop(output, Len(space))) = Len(output)

\* C20: with the basic preset (no line terminator, no indentor, add_space and
\* separate_tuple_members unset) the engine writes no white space of its own: the
\* white space in the buffer is that of the strings, characters and names the caller
\* gave, and the end of a tuple removes nothing.
C20_BasicAddsNoWhitespace ==
    /\ []((pc # "idle" /\ (Basic(config) \/ entry = "to_string")) => Compact(config))
    /\ [][NoBlanksAdded]_vars

C20_Witness ==
    /\ Basic(config)
    /\ last.op \in TupleEndOps
    /\ Len(closed.elems) = 2
    /\ Blanks(output) = 1

====
